---- MODULE Spec2Model ----
(***************************************************************************)
(* imx415_streamer: the capture loop (single writer), the HTTP handlers    *)
(* (readers and mode / detection setters) and the YOLO detector bridge     *)
(* (request channel, worker thread, co-process), modelled at the           *)
(* granularity of the lock acquisitions of src/main.rs, src/capture.rs and *)
(* src/detector.rs.                                                        *)
(***************************************************************************)
EXTENDS Integers, Sequences, FiniteSets, TLC

\* ------------------------------------------------------------------ bounds
MaxTicks == 3          \* capture ticks explored by Spec
MaxDetTicks == 6       \* capture ticks explored by SpecDet

\* ------------------------------------------------------------ value spaces
Modes == {"Grayscale", "Color"}
ModeHandlers == {1, 2}
StreamClients == {1, 2}
\* path segments of GET /mode/{x}, already lower-cased
ModePaths == {"grayscale", "color", "bogus"}
\* path segments of GET /detect/{x}, already lower-cased
DetectPaths == {"on", "off"}
\* what the peer prints for one request: JSON with boxes, JSON without,
\* a line that is not JSON
Bodies == {"boxes", "empty", "garbage"}
\* how one reader.read_line ends: a line, end of stream (Ok(0), empty line),
\* an Err
ReadOutcomes == {"line", "eof", "err"}
\* frame geometry
WIDTH == 3840
HEIGHT == 2160
STRIDE == 4864
\* the raw file after v4l2-ctl: <<>> when there is none to read, else <<its
\* length in bytes>>
RawFiles == { <<>>, <<0>>, <<STRIDE>>, <<STRIDE * HEIGHT - 1>>, <<STRIDE * HEIGHT>>,
             <<STRIDE * HEIGHT + 1>> }

\* groups of four pixels the unpack is tried on: the first of the frame and
\* the last, as <<x, y>>
Groups == { <<0, 0>>, <<WIDTH \div 4 - 1, HEIGHT - 1>> }
\* four 10-bit pixel values: one of them any value, the others all zeros or
\* all ones
Pixels ==
    { [k \in 1..4 |-> IF k = lane THEN val ELSE others[k]] :
        lane \in 1..4, val \in 0..1023, others \in [1..4 -> {0, 1023}] }

GROUPS_PER_ROW == 960
\* cells of the native gray plane the extraction is tried on, as <<out_y, g>>
GrayCells == { <<0, 0>>, <<539, 17>>, <<HEIGHT \div 2 - 1, GROUPS_PER_ROW - 1>> }
\* the two raw bytes that are averaged: any byte above a few bytes below
BytePairs == { <<v0, v1>> : v0 \in 0..255, v1 \in {0, 1, 2, 127, 128, 254, 255} }

\* destination pixels the upscale is tried on, as <<dst_x, dst_y>>: the four
\* corners, the pixel next to the first, one in the middle
DstPixels ==
    { <<0, 0>>, <<WIDTH - 1, 0>>, <<0, HEIGHT - 1>>, <<WIDTH - 1, HEIGHT - 1>>,
      <<1, 1>>, <<1920, 1081>> }
\* values of a gray_native pixel, and constants added to a whole plane
GrayLevels == {0, 1, 100, 200, 255}
GrayShifts == {1, 55, 255}

\* pixels the demosaic is tried on, as <<x, y>>: each CFA parity at the first
\* corner, at the last corner and inside the frame
BayerPixels ==
    { <<x, y>> : x \in {0, 1, 10, 11, WIDTH - 2, WIDTH - 1},
                 y \in {0, 1, 10, 11, HEIGHT - 2, HEIGHT - 1} }

\* first lines of the peer's output as read_line returns them, character by
\* character; the empty line is the end of the stream
READY == <<"R", "E", "A", "D", "Y">>
Line_READY == <<"R", "E", "A", "D", "Y", "\n">>
Line_eof == <<>>
FirstLines ==
    { Line_READY, Line_eof,
      <<"R", "E", "A", "D", "Y">>,
      <<"R", "E", "A", "D", "Y", "\r", "\n">>,
      <<" ", "R", "E", "A", "D", "Y", "\n">>,
      <<"R", "E", "A", "D", "Y", " ", "\n">>,
      <<"R", "E", "A", "D", "Y", "X", "\n">>,
      <<"r", "e", "a", "d", "y", "\n">>,
      <<"R", "E", " ", "A", "D", "Y", "\n">>,
      <<"\n">> }

VARIABLES
    main_pc,                  \* position of main: sensor setup, serving, returned
    \* --- capture_loop locals and position
    pc,                       \* position of capture_loop
    ticks,                    \* interval ticks consumed so far
    tick_limit,               \* exploration bound on ticks
    mode_clients,             \* exploration bound on concurrent /mode requests
    first_lines,              \* first lines the peer may print in this exploration
    jpeg_data,                \* local jpeg_data of the tick (<<>> when none)
    detection_frame_counter,  \* local u32 of capture_loop
    \* --- FrameCapture behind AppState.capture
    capture_locked,           \* capture write lock held by capture_loop
    config_mode,              \* FrameCapture.config.mode
    bayer_tick,               \* tick that last wrote bayer10
    rgb_tick,                 \* tick that last wrote rgb_buffer
    gray_tick,                \* tick that last wrote gray_native/gray_output
    stage_mode,               \* mode whose stages ran in the current tick
    raw_data,                 \* local raw_data of capture_jpeg_frame: <<>> or <<len>>
    raw_files,                \* what v4l2-ctl may leave in the raw file here
    \* --- AppState
    current_frame,            \* Option<Bytes>: <<>> or <<payload>>
    frame_count,
    slot_locked,              \* current_frame write lock held by capture_loop
    current_mode,
    detection_enabled,
    last_detections,
    \* --- YoloDetector
    request_queue,            \* mpsc channel contents
    worker_pc,                \* position of detector_thread
    last_result,              \* Arc<Mutex<DetectionResult>>
    peer_in,                  \* requests written to the peer, not yet answered
    peer_out,                 \* lines printed by the peer, not yet read
    peer_alive,               \* the co-process runs
    ready_line,               \* local ready_line of detector_thread
    dropped,                  \* the YoloDetector has been dropped
    \* --- HTTP handlers
    mode_pc, mode_arg,
    mode_resp,                \* last /mode response: HTTP status, error body or not
    mode_paths,               \* path segments /mode is requested with here
    det_pc, det_arg,
    frame_resp,               \* last /frame.jpg response
    stream_part,              \* last /stream part
    stream_emitted,           \* per /stream client: the payloads of its parts, in
                              \* order, consecutive repeats left out
    status_pc, status_count, status_resp,
    \* --- a processing stage run on its own
    stage_in,                 \* <<>> or the arguments of the call
    stage_out,                \* <<>> or <<what the call wrote>>
    \* --- history (observations only, never read by the program)
    ok_ticks,                 \* ticks whose capture_jpeg_frame returned Ok
    stores,                   \* assignments to current_frame
    published,                \* payloads ever stored in current_frame
    submitted,                \* requests accepted by the channel, in order
    sent,                     \* requests written to the peer, in order
    lines_read,               \* response lines read by the worker, in order
    settled,                  \* <<m>>: a /mode request for m ran alone and returned
    overlapped                \* per /mode handler: another one was in flight

loop_vars == <<pc, ticks, jpeg_data, detection_frame_counter>>
capture_vars == <<capture_locked, config_mode, bayer_tick, rgb_tick, gray_tick, stage_mode,
                  raw_data>>
slot_vars == <<current_frame, frame_count, slot_locked>>
app_vars == <<current_mode, detection_enabled, last_detections>>
bridge_vars == <<request_queue, worker_pc, last_result, peer_in, peer_out, peer_alive,
                 ready_line, dropped>>
mode_vars == <<mode_pc, mode_arg, mode_resp>>
det_vars == <<det_pc, det_arg>>
reader_vars == <<frame_resp, stream_part, stream_emitted, status_pc, status_count,
                 status_resp>>
hist_loop == <<ok_ticks, stores, published>>
hist_bridge == <<submitted, sent, lines_read>>
hist_mode == <<settled, overlapped>>
env_vars == <<tick_limit, mode_clients, first_lines, raw_files, mode_paths>>
stage_vars == <<stage_in, stage_out>>

vars == <<main_pc, stage_vars, loop_vars, env_vars, capture_vars, slot_vars, app_vars, bridge_vars,
          mode_vars, det_vars, reader_vars, hist_loop, hist_bridge, hist_mode>>

\* ------------------------------------------------------------------ values
\* DetectionResult: whether the detections list is non-empty, whether the
\* error text is set; req is the request the result was decoded for (0: none)
DetectionResult_default == [detections |-> FALSE, error |-> FALSE, req |-> 0]

\* serde_json::from_str::<DetectionResult>(&response_line) and its two arms
ParseResponse(line) ==
    IF line.body \in {"boxes", "empty"}
    THEN [detections |-> (line.body = "boxes"), error |-> FALSE, req |-> line.req]
    ELSE [detections |-> FALSE, error |-> TRUE, req |-> line.req]

\* str::trim on a line: leading and trailing white space removed
IsSpace(c) == c \in {" ", "\t", "\n", "\r"}

RECURSIVE TrimStart(_)
TrimStart(line) ==
    IF line # <<>> /\ IsSpace(Head(line)) THEN TrimStart(Tail(line)) ELSE line

RECURSIVE TrimEnd(_)
TrimEnd(line) ==
    IF line # <<>> /\ IsSpace(line[Len(line)])
    THEN TrimEnd(SubSeq(line, 1, Len(line) - 1))
    ELSE line

Trim(line) == TrimEnd(TrimStart(line))

\* DetectorRequest::Shutdown in the channel (Detect carries the tick, from 1)
Shutdown == 0

\* detector_thread has returned: Err from the spawn, Err from the READY
\* handshake, or Ok after the cleanup behind the request loop
WorkerEnded == worker_pc \in {"failed_spawn", "bailed", "cleaned"}

\* state.detector.read().is_some(): main stores Some when YoloDetector::new
\* returns Ok, and new returns Ok once the channel and the thread exist
detector_available == TRUE

\* capture_raw_frame as a function of what the environment does: v4l2-ctl can
\* be run or not, exits with success or not, and fs::read finds the file or
\* not. Err is <<>>, Ok(raw_data) is <<raw_data.len()>>
CaptureRawFrame(run, success, file) ==
    IF ~run THEN <<>>
    ELSE IF ~success THEN <<>>
    ELSE file

\* setup_sensor as a function of what the environment does: each of the two
\* v4l2-ctl commands can be run or not and exits with success or not. The
\* first is run with .output().context(..)? and its exit status only warns;
\* the second is run with let _ = ..output()
setup_sensor(link_run, link_success, gain_run, gain_success) ==
    IF ~link_run THEN "Err" ELSE "Ok"

\* main is past its startup and has not returned
Serving == main_pc = "serving" /\ ~dropped

\* u16 arithmetic of unpack_bayer10
RECURSIVE BitAnd(_, _)
BitAnd(a, b) ==
    IF a = 0 \/ b = 0 THEN 0
    ELSE (IF a % 2 = 1 /\ b % 2 = 1 THEN 1 ELSE 0) + 2 * BitAnd(a \div 2, b \div 2)

RECURSIVE BitOr(_, _)
BitOr(a, b) ==
    IF a = 0 THEN b
    ELSE IF b = 0 THEN a
    ELSE (IF a % 2 = 1 \/ b % 2 = 1 THEN 1 ELSE 0) + 2 * BitOr(a \div 2, b \div 2)

Shl16(a, n) == (a * 2^n) % 65536
Shr(a, n) == a \div 2^n

\* the five bytes of a CSI-2 RAW10 group that carries the pixels v: one byte
\* with the high 8 bits of each, then a byte with their low 2 bits, those of
\* pixel k at bits 2k and 2k+1
Pack(v) ==
    << v[1] \div 4, v[2] \div 4, v[3] \div 4, v[4] \div 4,
       (v[1] % 4) + 4 * (v[2] % 4) + 16 * (v[3] % 4) + 64 * (v[4] % 4) >>

\* variant of UnpackGroup: the low bits of pixel k are taken from bit k on
UnpackGroup_shift(group, x, y, len) ==
    LET i == y * STRIDE + x * 5
        pixel(k) == BitOr(Shl16(group[k + 1], 2), BitAnd(Shr(group[5], k), 3))
    IN  IF i + 4 >= len THEN {}
        ELSE { <<y * WIDTH + x * 4 + k, pixel(k)>> : k \in 0..3 }

\* unpack_bayer10 on the group at column x of row y of a raw buffer of len
\* bytes: what it stores into bayer10, as <<index, value>>; nothing when the
\* group runs past the buffer
UnpackGroup(group, x, y, len) ==
    LET i == y * STRIDE + x * 5
        pixel(k) == BitOr(Shl16(group[k + 1], 2), BitAnd(Shr(group[5], 2 * k), 3))
    IN  IF i + 4 >= len THEN {}
        ELSE { <<y * WIDTH + x * 4 + k, pixel(k)>> : k \in 0..3 }

\* raw.get(idx).copied().unwrap_or(0) on a raw buffer of len bytes
GetOrZero(bytes, len, idx) == IF idx < len THEN bytes[idx] ELSE 0

\* variant of ExtractCell: the sum of the two bytes is formed in u8
ExtractCell_u8(bytes, len, out_y, g) ==
    LET idx0 == (out_y * 2) * STRIDE + g * 5 + 4
        idx1 == (out_y * 2 + 1) * STRIDE + g * 5 + 4
        v0 == GetOrZero(bytes, len, idx0)
        v1 == GetOrZero(bytes, len, idx1)
    IN  [index |-> out_y * GROUPS_PER_ROW + g,
         value |-> ((v0 + v1) % 256) \div 2]

\* extract_grayscale at output row out_y, group g: the index it writes in
\* gray_native and the value, ((v0 + v1) / 2) as u8 with v0, v1 as u16
ExtractCell(bytes, len, out_y, g) ==
    LET idx0 == (out_y * 2) * STRIDE + g * 5 + 4
        idx1 == (out_y * 2 + 1) * STRIDE + g * 5 + 4
        v0 == GetOrZero(bytes, len, idx0) % 65536
        v1 == GetOrZero(bytes, len, idx1) % 65536
    IN  [index |-> out_y * GROUPS_PER_ROW + g,
         value |-> (((v0 + v1) % 65536) \div 2) % 256]

\* the smaller of two numbers
Min(a, b) == IF a < b THEN a ELSE b

\* upscale_grayscale: the Q16 source coordinate of a destination coordinate,
\* src_fp = dst * (((src - 1) << 16) / (dst_size - 1))
SrcFp(dst, src_size, dst_size) == dst * (((src_size - 1) * 65536) \div (dst_size - 1))

\* the gray_native pixels one destination pixel is interpolated from, as
\* <<src_y, src_x>>
SrcCells(dst_x, dst_y) ==
    LET src_x0 == SrcFp(dst_x, GROUPS_PER_ROW, WIDTH) \div 65536
        src_y0 == SrcFp(dst_y, HEIGHT \div 2, HEIGHT) \div 65536
    IN  { <<sy, sx>> : sy \in {src_y0, Min(src_y0 + 1, HEIGHT \div 2 - 1)},
                       sx \in {src_x0, Min(src_x0 + 1, GROUPS_PER_ROW - 1)} }

\* variant of UpscalePixel: the inverse weights are 0xFFFF - frac
UpscalePixel_short(native, dst_x, dst_y) ==
    LET src_w == GROUPS_PER_ROW
        src_h == HEIGHT \div 2
        src_y_fp == SrcFp(dst_y, src_h, HEIGHT)
        src_y0 == src_y_fp \div 65536
        src_y1 == Min(src_y0 + 1, src_h - 1)
        y_frac == src_y_fp % 65536
        src_x_fp == SrcFp(dst_x, src_w, WIDTH)
        src_x0 == src_x_fp \div 65536
        src_x1 == Min(src_x0 + 1, src_w - 1)
        x_frac == src_x_fp % 65536
        p00 == native[<<src_y0, src_x0>>]
        p01 == native[<<src_y0, src_x1>>]
        p10 == native[<<src_y1, src_x0>>]
        p11 == native[<<src_y1, src_x1>>]
        x_inv == 65535 - x_frac
        y_inv == 65535 - y_frac
        top == (p00 * x_inv + p01 * x_frac) \div 65536
        bot == (p10 * x_inv + p11 * x_frac) \div 65536
        val == (top * y_inv + bot * y_frac) \div 65536
    IN  val % 256

\* upscale_grayscale at one destination pixel: the value it stores in
\* gray_output, cast to u8; the u32 products and sums stay below 2^25
UpscalePixel(native, dst_x, dst_y) ==
    LET src_w == GROUPS_PER_ROW
        src_h == HEIGHT \div 2
        src_y_fp == SrcFp(dst_y, src_h, HEIGHT)
        src_y0 == src_y_fp \div 65536
        src_y1 == Min(src_y0 + 1, src_h - 1)
        y_frac == src_y_fp % 65536
        src_x_fp == SrcFp(dst_x, src_w, WIDTH)
        src_x0 == src_x_fp \div 65536
        src_x1 == Min(src_x0 + 1, src_w - 1)
        x_frac == src_x_fp % 65536
        p00 == native[<<src_y0, src_x0>>]
        p01 == native[<<src_y0, src_x1>>]
        p10 == native[<<src_y1, src_x0>>]
        p11 == native[<<src_y1, src_x1>>]
        x_inv == 65536 - x_frac
        y_inv == 65536 - y_frac
        top == (p00 * x_inv + p01 * x_frac) \div 65536
        bot == (p10 * x_inv + p11 * x_frac) \div 65536
        val == (top * y_inv + bot * y_frac) \div 65536
    IN  val % 256

\* x.clamp(lo, hi)
Clamp(v, lo, hi) == IF v < lo THEN lo ELSE IF v > hi THEN hi ELSE v

\* FrameCapture::bayer: the sample at (x, y) with both coordinates clamped
\* into the plane
bayer(plane, x, y) == plane[<<Clamp(x, 0, WIDTH - 1), Clamp(y, 0, HEIGHT - 1)>>]

\* the samples bayer() can be asked for around (x, y)
BayerWindow(x, y) ==
    { <<Clamp(x + dx, 0, WIDTH - 1), Clamp(y + dy, 0, HEIGHT - 1)>> :
        dx \in {-1, 0, 1}, dy \in {-1, 0, 1} }

\* the u16 averages of demosaic_bayer
AvgRow(plane, x, y) == ((bayer(plane, x - 1, y) + bayer(plane, x + 1, y)) % 65536) \div 2
AvgCol(plane, x, y) == ((bayer(plane, x, y - 1) + bayer(plane, x, y + 1)) % 65536) \div 2
AvgCross(plane, x, y) ==
    ((bayer(plane, x - 1, y) + bayer(plane, x + 1, y)
        + bayer(plane, x, y - 1) + bayer(plane, x, y + 1)) % 65536) \div 4
AvgDiag(plane, x, y) ==
    ((bayer(plane, x - 1, y - 1) + bayer(plane, x + 1, y - 1)
        + bayer(plane, x - 1, y + 1) + bayer(plane, x + 1, y + 1)) % 65536) \div 4

\* (v.min(1023) >> 2) as u8
Store8(v) == (Min(v, 1023) \div 4) % 256

\* variant of DemosaicPixel: the red and blue sites of the CFA are exchanged
DemosaicPixel_rggb(plane, x, y) ==
    LET rgb == CASE y % 2 = 0 /\ x % 2 = 0 ->
                      <<AvgCol(plane, x, y), bayer(plane, x, y), AvgRow(plane, x, y)>>
                 [] y % 2 = 0 /\ x % 2 = 1 ->
                      <<bayer(plane, x, y), AvgCross(plane, x, y), AvgDiag(plane, x, y)>>
                 [] y % 2 = 1 /\ x % 2 = 0 ->
                      <<AvgDiag(plane, x, y), AvgCross(plane, x, y), bayer(plane, x, y)>>
                 [] OTHER ->
                      <<AvgRow(plane, x, y), bayer(plane, x, y), AvgCol(plane, x, y)>>
    IN  [r |-> Store8(rgb[1]), g |-> Store8(rgb[2]), b |-> Store8(rgb[3])]

\* demosaic_bayer at pixel (x, y): the match on ((y & 1), (x & 1)) and the
\* three bytes stored in rgb_buffer
DemosaicPixel(plane, x, y) ==
    LET rgb == CASE y % 2 = 0 /\ x % 2 = 0 ->
                      <<AvgCol(plane, x, y), bayer(plane, x, y), AvgRow(plane, x, y)>>
                 [] y % 2 = 0 /\ x % 2 = 1 ->
                      <<AvgDiag(plane, x, y), AvgCross(plane, x, y), bayer(plane, x, y)>>
                 [] y % 2 = 1 /\ x % 2 = 0 ->
                      <<bayer(plane, x, y), AvgCross(plane, x, y), AvgDiag(plane, x, y)>>
                 [] OTHER ->
                      <<AvgRow(plane, x, y), bayer(plane, x, y), AvgCol(plane, x, y)>>
    IN  [r |-> Store8(rgb[1]), g |-> Store8(rgb[2]), b |-> Store8(rgb[3])]

\* the encoder call of encode_jpeg for one mode: plane and colour type
EncodeKind(m) == IF m = "Color" THEN "Rgb8" ELSE "L8"
EncodePlane(m) == IF m = "Color" THEN rgb_tick ELSE gray_tick

\* axum::Json(..) as a response: IntoResponse for Json answers 200 OK with the
\* serialised value as body
Json(error) == [status |-> 200, error |-> error]

\* CaptureMode named by a /mode path segment (<<>>: not recognised)
ParseMode(path) ==
    CASE path = "grayscale" -> <<"Grayscale">>
      [] path = "color" -> <<"Color">>
      [] OTHER -> <<>>

\* ------------------------------------------------------------------- Init
\* AppState::new and FrameCapture::new have returned; the fields of the
\* detector are as YoloDetector::new leaves them
InitCommon ==
    /\ pc = "tick"
    /\ ticks = 0
    /\ jpeg_data = <<>>
    /\ detection_frame_counter = 0
    /\ capture_locked = FALSE
    /\ config_mode = "Grayscale"
    /\ bayer_tick = 0
    /\ rgb_tick = 0
    /\ gray_tick = 0
    /\ stage_mode = "Grayscale"
    /\ raw_data = <<>>
    /\ current_frame = <<>>
    /\ frame_count = 0
    /\ slot_locked = FALSE
    /\ current_mode = "Grayscale"
    /\ detection_enabled = FALSE
    /\ last_detections = DetectionResult_default
    /\ request_queue = <<>>
    /\ worker_pc = "spawn"
    /\ last_result = DetectionResult_default
    /\ peer_in = <<>>
    /\ peer_out = <<>>
    /\ peer_alive = FALSE
    /\ ready_line = <<>>
    /\ dropped = FALSE
    /\ mode_pc = [h \in ModeHandlers |-> "idle"]
    /\ mode_arg = [h \in ModeHandlers |-> "Grayscale"]
    /\ mode_resp = [status |-> 0, error |-> FALSE]
    /\ det_pc = "idle"
    /\ det_arg = FALSE
    /\ frame_resp = [status |-> 0, body |-> <<>>]
    /\ stream_part = <<>>
    /\ stream_emitted = [c \in StreamClients |-> <<>>]
    /\ status_pc = "idle"
    /\ status_count = 0
    /\ status_resp = [frame_count |-> 0, has_frame |-> FALSE]
    /\ ok_ticks = 0
    /\ stores = 0
    /\ published = {}
    /\ submitted = <<>>
    /\ sent = <<>>
    /\ lines_read = <<>>
    /\ settled = <<>>
    /\ overlapped = [h \in ModeHandlers |-> FALSE]

\* main has set up the sensor and stored the detector
InitServing == InitCommon /\ main_pc = "serving" /\ stage_in = <<>> /\ stage_out = <<>>

Init == InitServing /\ tick_limit = MaxTicks /\ mode_clients = 1
    /\ first_lines = {Line_READY, Line_eof}
    /\ raw_files = {<<>>, <<STRIDE * HEIGHT>>}
    /\ mode_paths = {"grayscale", "color"}

\* ------------------------------------------------------------------- main
\* main from capture.setup_sensor()? to the spawn of capture_loop: an Err of
\* setup_sensor returns from main
main_startup(link_run, link_success, gain_run, gain_success) ==
    /\ main_pc = "setup_sensor"
    /\ main_pc' = IF setup_sensor(link_run, link_success, gain_run, gain_success) = "Ok"
                  THEN "serving"
                  ELSE "returned"
    /\ UNCHANGED <<stage_vars, loop_vars, env_vars, capture_vars, slot_vars, app_vars,
                   bridge_vars, mode_vars, det_vars, reader_vars, hist_loop,
                   hist_bridge, hist_mode>>

\* ------------------------------------------------------- stages on their own
\* unpack_bayer10(&raw) seen at one group of the raw buffer
unpack_bayer10 ==
    /\ stage_in # <<>>
    /\ stage_out = <<>>
    /\ stage_out' = <<UnpackGroup(stage_in.raw, stage_in.x, stage_in.y, stage_in.len)>>
    /\ UNCHANGED <<main_pc, stage_in, loop_vars, env_vars, capture_vars, slot_vars,
                   app_vars, bridge_vars, mode_vars, det_vars, reader_vars, hist_loop,
                   hist_bridge, hist_mode>>

\* extract_grayscale(&raw) seen at one cell of gray_native
extract_grayscale ==
    /\ stage_in # <<>>
    /\ stage_out = <<>>
    /\ stage_out' = <<ExtractCell(stage_in.raw, stage_in.len, stage_in.out_y, stage_in.g)>>
    /\ UNCHANGED <<main_pc, stage_in, loop_vars, env_vars, capture_vars, slot_vars,
                   app_vars, bridge_vars, mode_vars, det_vars, reader_vars, hist_loop,
                   hist_bridge, hist_mode>>

\* upscale_grayscale() seen at one pixel of gray_output, on the plane in
\* gray_native and on the same plane with k added to every pixel
upscale_grayscale ==
    /\ stage_in # <<>>
    /\ stage_out = <<>>
    /\ stage_out' =
          <<[value |-> UpscalePixel(stage_in.native, stage_in.dst_x, stage_in.dst_y),
             shifted |-> UpscalePixel([c \in DOMAIN stage_in.native |->
                                          Min(stage_in.native[c] + stage_in.k, 255)],
                                      stage_in.dst_x, stage_in.dst_y)]>>
    /\ UNCHANGED <<main_pc, stage_in, loop_vars, env_vars, capture_vars, slot_vars,
                   app_vars, bridge_vars, mode_vars, det_vars, reader_vars, hist_loop,
                   hist_bridge, hist_mode>>

\* demosaic_bayer() seen at one pixel of rgb_buffer
demosaic_bayer ==
    /\ stage_in # <<>>
    /\ stage_out = <<>>
    /\ stage_out' = <<DemosaicPixel(stage_in.plane, stage_in.x, stage_in.y)>>
    /\ UNCHANGED <<main_pc, stage_in, loop_vars, env_vars, capture_vars, slot_vars,
                   app_vars, bridge_vars, mode_vars, det_vars, reader_vars, hist_loop,
                   hist_bridge, hist_mode>>

\* ------------------------------------------------------------ capture_loop
\* interval.tick().await, then state.capture.write(): the tick starts
capture_loop_tick ==
    /\ pc = "tick"
    /\ Serving
    /\ ticks < tick_limit
    /\ ~capture_locked
    /\ capture_locked' = TRUE
    /\ ticks' = ticks + 1
    /\ pc' = "raw"
    /\ UNCHANGED <<main_pc, stage_vars>>
    /\ UNCHANGED <<jpeg_data, detection_frame_counter, env_vars, config_mode,
                   bayer_tick, rgb_tick, gray_tick, stage_mode, raw_data, slot_vars,
                   app_vars, bridge_vars, mode_vars, det_vars, reader_vars,
                   hist_loop, hist_bridge, hist_mode>>

\* variant of capture_raw_frame: a failed acquisition bumps the counter
capture_raw_frame_counting(run, success, file) ==
    /\ pc = "raw"
    /\ raw_data' = CaptureRawFrame(run, success, file)
    /\ IF CaptureRawFrame(run, success, file) # <<>>
       THEN /\ pc' = "stages"
            /\ UNCHANGED <<capture_locked, frame_count>>
       ELSE /\ pc' = "tick"
            /\ capture_locked' = FALSE
            /\ frame_count' = frame_count + 1
    /\ UNCHANGED <<main_pc, stage_vars>>
    /\ UNCHANGED <<ticks, jpeg_data, detection_frame_counter, env_vars, config_mode,
                   bayer_tick, rgb_tick, gray_tick, stage_mode, current_frame, slot_locked, app_vars,
                   bridge_vars, mode_vars, det_vars, reader_vars, ok_ticks, stores,
                   published, hist_bridge, hist_mode>>

\* variant of capture_raw_frame: a failed acquisition clears the slot
capture_raw_frame_clearing(run, success, file) ==
    /\ pc = "raw"
    /\ raw_data' = CaptureRawFrame(run, success, file)
    /\ IF CaptureRawFrame(run, success, file) # <<>>
       THEN /\ pc' = "stages"
            /\ UNCHANGED <<capture_locked, current_frame>>
       ELSE /\ pc' = "tick"
            /\ capture_locked' = FALSE
            /\ current_frame' = <<>>
    /\ UNCHANGED <<main_pc, stage_vars>>
    /\ UNCHANGED <<ticks, jpeg_data, detection_frame_counter, env_vars, config_mode,
                   bayer_tick, rgb_tick, gray_tick, stage_mode, frame_count, slot_locked, app_vars,
                   bridge_vars, mode_vars, det_vars, reader_vars, ok_ticks, stores,
                   published, hist_bridge, hist_mode>>

\* variant of capture_raw_frame: the Err return leaves the capture guard
\* alive
capture_raw_frame_leaking(run, success, file) ==
    /\ pc = "raw"
    /\ raw_data' = CaptureRawFrame(run, success, file)
    /\ pc' = IF CaptureRawFrame(run, success, file) # <<>> THEN "stages" ELSE "tick"
    /\ UNCHANGED capture_locked
    /\ UNCHANGED <<main_pc, stage_vars>>
    /\ UNCHANGED <<ticks, jpeg_data, detection_frame_counter, env_vars, config_mode,
                   bayer_tick, rgb_tick, gray_tick, stage_mode, slot_vars, app_vars,
                   bridge_vars, mode_vars, det_vars, reader_vars, ok_ticks, stores,
                   published, hist_bridge, hist_mode>>

\* capture_raw_frame()?: Ok(raw_data) goes on to the stages; Err leaves
\* capture_jpeg_frame, drops the guard and takes the Err arm of capture_loop
capture_raw_frame(run, success, file) ==
    /\ pc = "raw"
    /\ raw_data' = CaptureRawFrame(run, success, file)
    /\ IF CaptureRawFrame(run, success, file) # <<>>
       THEN /\ pc' = "stages"
            /\ UNCHANGED capture_locked
       ELSE /\ pc' = "tick"
            /\ capture_locked' = FALSE
    /\ UNCHANGED <<main_pc, stage_vars>>
    /\ UNCHANGED <<ticks, jpeg_data, detection_frame_counter, env_vars, config_mode,
                   bayer_tick, rgb_tick, gray_tick, stage_mode, slot_vars, app_vars,
                   bridge_vars, mode_vars, det_vars, reader_vars, ok_ticks, stores,
                   published, hist_bridge, hist_mode>>

\* variant of capture_jpeg_frame: unpack_bayer10 runs ahead of the match, in
\* either mode
capture_jpeg_frame_unpacking ==
    /\ pc = "stages"
    /\ stage_mode' = config_mode
    /\ bayer_tick' = ticks
    /\ IF config_mode = "Color"
       THEN /\ rgb_tick' = ticks
            /\ UNCHANGED gray_tick
       ELSE /\ gray_tick' = ticks
            /\ UNCHANGED rgb_tick
    /\ pc' = "encode"
    /\ UNCHANGED <<main_pc, stage_vars>>
    /\ UNCHANGED <<ticks, jpeg_data, detection_frame_counter, env_vars, capture_locked,
                   config_mode, raw_data, slot_vars, app_vars, bridge_vars, mode_vars,
                   det_vars, reader_vars, hist_loop, hist_bridge, hist_mode>>

\* match self.config.mode of capture_jpeg_frame: the processing stages
capture_jpeg_frame ==
    /\ pc = "stages"
    /\ stage_mode' = config_mode
    /\ IF config_mode = "Color"
       THEN /\ bayer_tick' = ticks          \* unpack_bayer10
            /\ rgb_tick' = ticks            \* demosaic, white balance, gamma
            /\ UNCHANGED gray_tick
       ELSE /\ gray_tick' = ticks           \* extract_grayscale, upscale_grayscale
            /\ UNCHANGED <<bayer_tick, rgb_tick>>
    /\ pc' = "encode"
    /\ UNCHANGED <<main_pc, stage_vars>>
    /\ UNCHANGED <<ticks, jpeg_data, detection_frame_counter, env_vars, capture_locked,
                   config_mode, raw_data, slot_vars, app_vars, bridge_vars, mode_vars,
                   det_vars, reader_vars, hist_loop, hist_bridge, hist_mode>>

\* variant of encode_jpeg: a failed encode leaves what is in jpeg_buffer in
\* the slot
encode_jpeg_publishing(ok) ==
    /\ pc = "encode"
    /\ capture_locked' = FALSE
    /\ raw_data' = <<>>
    /\ IF ok
       THEN /\ jpeg_data' = <<[tick |-> ticks, kind |-> EncodeKind(config_mode),
                               plane |-> EncodePlane(config_mode), stage |-> stage_mode,
                               mode |-> config_mode, overlay |-> FALSE]>>
            /\ ok_ticks' = ok_ticks + 1
            /\ pc' = "got_frame"
            /\ UNCHANGED current_frame
       ELSE /\ pc' = "tick"
            /\ current_frame' = <<[tick |-> ticks, kind |-> EncodeKind(config_mode),
                                   plane |-> EncodePlane(config_mode), stage |-> stage_mode,
                                   mode |-> config_mode, overlay |-> FALSE]>>
            /\ UNCHANGED <<jpeg_data, ok_ticks>>
    /\ UNCHANGED <<main_pc, stage_vars>>
    /\ UNCHANGED <<ticks, detection_frame_counter, env_vars, config_mode, bayer_tick,
                   rgb_tick, gray_tick, stage_mode, frame_count, slot_locked, app_vars, bridge_vars,
                   mode_vars, det_vars, reader_vars, stores, published, hist_bridge,
                   hist_mode>>

\* variant of encode_jpeg: the counter is advanced as soon as the frame is
\* encoded, ahead of the store
encode_jpeg_counting(ok) ==
    /\ pc = "encode"
    /\ capture_locked' = FALSE
    /\ raw_data' = <<>>
    /\ IF ok
       THEN /\ jpeg_data' = <<[tick |-> ticks, kind |-> EncodeKind(config_mode),
                               plane |-> EncodePlane(config_mode), stage |-> stage_mode,
                               mode |-> config_mode, overlay |-> FALSE]>>
            /\ ok_ticks' = ok_ticks + 1
            /\ frame_count' = frame_count + 1
            /\ pc' = "got_frame"
       ELSE /\ pc' = "tick"
            /\ UNCHANGED <<jpeg_data, ok_ticks, frame_count>>
    /\ UNCHANGED <<main_pc, stage_vars>>
    /\ UNCHANGED <<ticks, detection_frame_counter, env_vars, config_mode, bayer_tick,
                   rgb_tick, gray_tick, stage_mode, current_frame, slot_locked, app_vars,
                   bridge_vars, mode_vars, det_vars, reader_vars, stores, published,
                   hist_bridge, hist_mode>>

\* encode_jpeg(): match self.config.mode again, encode that mode's plane;
\* the capture guard is dropped when capture_jpeg_frame returns
encode_jpeg(ok) ==
    /\ pc = "encode"
    /\ capture_locked' = FALSE
    /\ raw_data' = <<>>
    /\ IF ok
       THEN /\ jpeg_data' = <<[tick |-> ticks, kind |-> EncodeKind(config_mode),
                               plane |-> EncodePlane(config_mode), stage |-> stage_mode,
                               mode |-> config_mode, overlay |-> FALSE]>>
            /\ ok_ticks' = ok_ticks + 1
            /\ pc' = "got_frame"
       ELSE /\ pc' = "tick"
            /\ UNCHANGED <<jpeg_data, ok_ticks>>
    /\ UNCHANGED <<main_pc, stage_vars>>
    /\ UNCHANGED <<ticks, detection_frame_counter, env_vars, config_mode, bayer_tick,
                   rgb_tick, gray_tick, stage_mode, slot_vars, app_vars, bridge_vars,
                   mode_vars, det_vars, reader_vars, stores, published, hist_bridge,
                   hist_mode>>

\* variant of capture_loop_detection_enabled: the % 3 test is made on the
\* number of interval ticks
capture_loop_detection_enabled_ticks ==
    /\ pc = "got_frame"
    /\ IF detection_enabled
       THEN /\ detection_frame_counter' = detection_frame_counter + 1
            /\ pc' = IF ticks % 3 = 0
                     THEN "detect" ELSE "get_last_result"
       ELSE /\ pc' = "publish"
            /\ UNCHANGED detection_frame_counter
    /\ UNCHANGED <<main_pc, stage_vars>>
    /\ UNCHANGED <<ticks, jpeg_data, env_vars, capture_vars, slot_vars, app_vars,
                   bridge_vars, mode_vars, det_vars, reader_vars, hist_loop, hist_bridge,
                   hist_mode>>

\* Ok arm: let detection_enabled = *state.detection_enabled.read(), the
\* counter increment and the % 3 test
capture_loop_detection_enabled ==
    /\ pc = "got_frame"
    /\ IF detection_enabled
       THEN /\ detection_frame_counter' = detection_frame_counter + 1
            /\ pc' = IF (detection_frame_counter + 1) % 3 = 0
                     THEN "detect" ELSE "get_last_result"
       ELSE /\ pc' = "publish"
            /\ UNCHANGED detection_frame_counter
    /\ UNCHANGED <<main_pc, stage_vars>>
    /\ UNCHANGED <<ticks, jpeg_data, env_vars, capture_vars, slot_vars, app_vars,
                   bridge_vars, mode_vars, det_vars, reader_vars, hist_loop, hist_bridge,
                   hist_mode>>

\* YoloDetector::detect: request_tx.send on the unbounded mpsc channel; the
\* send fails (and is ignored) once the worker has dropped the receiver
detect ==
    /\ pc = "detect"
    /\ IF ~WorkerEnded
       THEN /\ request_queue' = Append(request_queue, jpeg_data[1].tick)
            /\ submitted' = Append(submitted, jpeg_data[1].tick)
       ELSE UNCHANGED <<request_queue, submitted>>
    /\ pc' = "get_last_result"
    /\ UNCHANGED <<main_pc, stage_vars>>
    /\ UNCHANGED <<ticks, jpeg_data, detection_frame_counter, env_vars, capture_vars,
                   slot_vars, app_vars, worker_pc, last_result, peer_in, peer_out,
                   peer_alive, ready_line, dropped, mode_vars, det_vars,
                   reader_vars, hist_loop, sent, lines_read, hist_mode>>

\* detector.get_last_result() stored into state.last_detections
get_last_result ==
    /\ pc = "get_last_result"
    /\ last_detections' = last_result
    /\ pc' = "draw"
    /\ UNCHANGED <<main_pc, stage_vars>>
    /\ UNCHANGED <<ticks, jpeg_data, detection_frame_counter, env_vars, capture_vars,
                   slot_vars, current_mode, detection_enabled, bridge_vars, mode_vars,
                   det_vars, reader_vars, hist_loop, hist_bridge, hist_mode>>

\* variant of capture_loop_draw_detections: the annotated image is re-encoded
\* in the colour type it was decoded from
capture_loop_draw_detections_same_kind(ok) ==
    /\ pc = "draw"
    /\ IF last_detections.detections /\ ok
       THEN jpeg_data' = <<[jpeg_data[1] EXCEPT !.overlay = TRUE]>>
       ELSE UNCHANGED jpeg_data
    /\ pc' = "publish"
    /\ UNCHANGED <<main_pc, stage_vars>>
    /\ UNCHANGED <<ticks, detection_frame_counter, env_vars, capture_vars, slot_vars,
                   app_vars, bridge_vars, mode_vars, det_vars, reader_vars, hist_loop,
                   hist_bridge, hist_mode>>

\* draw_detections on a non-empty list: decode, to_rgb8, draw, re-encode as
\* Rgb8; an Err keeps the frame as encoded
capture_loop_draw_detections(ok) ==
    /\ pc = "draw"
    /\ IF last_detections.detections /\ ok
       THEN jpeg_data' = <<[jpeg_data[1] EXCEPT !.kind = "Rgb8", !.overlay = TRUE]>>
       ELSE UNCHANGED jpeg_data
    /\ pc' = "publish"
    /\ UNCHANGED <<main_pc, stage_vars>>
    /\ UNCHANGED <<ticks, detection_frame_counter, env_vars, capture_vars, slot_vars,
                   app_vars, bridge_vars, mode_vars, det_vars, reader_vars, hist_loop,
                   hist_bridge, hist_mode>>

\* state.current_frame.write() of the store: the guard is taken once
\* Some(Bytes::from(jpeg_data)) has been evaluated, with nothing left to do
\* but the assignment
capture_loop_publish_lock ==
    /\ pc = "publish"
    /\ ~slot_locked
    /\ slot_locked' = TRUE
    /\ pc' = "store"
    /\ UNCHANGED <<main_pc, stage_vars>>
    /\ UNCHANGED <<ticks, jpeg_data, detection_frame_counter, env_vars, capture_vars,
                   current_frame, frame_count, app_vars, bridge_vars, mode_vars,
                   det_vars, reader_vars, hist_loop, hist_bridge, hist_mode>>

\* variant of capture_loop_publish_frame: the store also bumps the counter
capture_loop_publish_frame_counting ==
    /\ pc = "store"
    /\ slot_locked
    /\ current_frame' = jpeg_data
    /\ slot_locked' = FALSE
    /\ frame_count' = frame_count + 1
    /\ stores' = stores + 1
    /\ published' = published \cup {jpeg_data[1]}
    /\ pc' = "count"
    /\ UNCHANGED <<main_pc, stage_vars>>
    /\ UNCHANGED <<ticks, jpeg_data, detection_frame_counter, env_vars, capture_vars,
                   app_vars, bridge_vars, mode_vars, det_vars, reader_vars,
                   ok_ticks, hist_bridge, hist_mode>>

\* variant of capture_loop_publish_frame: the write guard is kept after the
\* assignment
capture_loop_publish_frame_holding ==
    /\ pc = "store"
    /\ slot_locked
    /\ current_frame' = jpeg_data
    /\ UNCHANGED slot_locked
    /\ stores' = stores + 1
    /\ published' = published \cup {jpeg_data[1]}
    /\ pc' = "count"
    /\ UNCHANGED <<main_pc, stage_vars>>
    /\ UNCHANGED <<ticks, jpeg_data, detection_frame_counter, env_vars, capture_vars,
                   frame_count, app_vars, bridge_vars, mode_vars, det_vars, reader_vars,
                   ok_ticks, hist_bridge, hist_mode>>

\* *state.current_frame.write() = Some(Bytes::from(jpeg_data)): the value is
\* built first, then the write guard is taken, the slot assigned and the
\* guard dropped at the end of the statement
capture_loop_publish_frame ==
    /\ pc = "store"
    /\ slot_locked
    /\ current_frame' = jpeg_data
    /\ slot_locked' = FALSE
    /\ stores' = stores + 1
    /\ published' = published \cup {jpeg_data[1]}
    /\ pc' = "count"
    /\ UNCHANGED <<main_pc, stage_vars>>
    /\ UNCHANGED <<ticks, jpeg_data, detection_frame_counter, env_vars, capture_vars,
                   frame_count, app_vars, bridge_vars, mode_vars, det_vars, reader_vars,
                   ok_ticks, hist_bridge, hist_mode>>

\* variant of capture_loop_publish_count: the counter kept in one bit
capture_loop_publish_count_wrapping ==
    /\ pc = "count"
    /\ frame_count' = (frame_count + 1) % 2
    /\ jpeg_data' = <<>>
    /\ pc' = "tick"
    /\ UNCHANGED <<main_pc, stage_vars>>
    /\ UNCHANGED <<ticks, detection_frame_counter, env_vars, capture_vars,
                   current_frame, slot_locked, app_vars, bridge_vars, mode_vars, det_vars, reader_vars,
                   hist_loop, hist_bridge, hist_mode>>

\* *state.frame_count.write() += 1
capture_loop_publish_count ==
    /\ pc = "count"
    /\ frame_count' = frame_count + 1
    /\ jpeg_data' = <<>>
    /\ pc' = "tick"
    /\ UNCHANGED <<main_pc, stage_vars>>
    /\ UNCHANGED <<ticks, detection_frame_counter, env_vars, capture_vars,
                   current_frame, slot_locked, app_vars, bridge_vars, mode_vars, det_vars, reader_vars,
                   hist_loop, hist_bridge, hist_mode>>

\* the steps every tick takes
capture_loop_frame ==
    \/ capture_loop_tick
    \/ \E run, success \in BOOLEAN, file \in raw_files :
            capture_raw_frame(run, success, file)
    \/ capture_jpeg_frame
    \/ \E ok \in BOOLEAN : encode_jpeg(ok)
    \/ capture_loop_detection_enabled
    \/ capture_loop_publish_lock
    \/ capture_loop_publish_frame
    \/ capture_loop_publish_count

\* the steps inside if detection_enabled
capture_loop_detection ==
    \/ detect
    \/ get_last_result
    \/ \E ok \in BOOLEAN : capture_loop_draw_detections(ok)

capture_loop == capture_loop_frame \/ capture_loop_detection

\* --------------------------------------------------------- detector_thread
\* Command::new("python3")...spawn(): an Err returns from detector_thread,
\* which drops the receiver and what is queued in it
detector_thread_spawn(ok) ==
    /\ worker_pc = "spawn"
    /\ main_pc = "serving"
    /\ IF ok
       THEN /\ worker_pc' = "wait_ready"
            /\ peer_alive' = TRUE
            /\ UNCHANGED request_queue
       ELSE /\ worker_pc' = "failed_spawn"
            /\ request_queue' = <<>>
            /\ UNCHANGED peer_alive
    /\ UNCHANGED <<main_pc, stage_vars>>
    /\ UNCHANGED <<loop_vars, env_vars, capture_vars, slot_vars, app_vars, last_result,
                   peer_in, peer_out, ready_line, dropped, mode_vars, det_vars,
                   reader_vars, hist_loop, hist_bridge, hist_mode>>

\* variant of detector_thread_ready: the line read is not tested
detector_thread_ready_untested(ok, line) ==
    /\ worker_pc = "wait_ready"
    /\ IF ok
       THEN /\ ready_line' = line
            /\ worker_pc' = "idle"
            /\ UNCHANGED request_queue
       ELSE /\ worker_pc' = "bailed"
            /\ request_queue' = <<>>
            /\ UNCHANGED ready_line
    /\ UNCHANGED <<main_pc, stage_vars>>
    /\ UNCHANGED <<loop_vars, env_vars, capture_vars, slot_vars, app_vars, last_result,
                   peer_in, peer_out, peer_alive, dropped, mode_vars, det_vars,
                   reader_vars, hist_loop, hist_bridge, hist_mode>>

\* the READY handshake: reader.read_line(&mut ready_line)? and the test
\* ready_line.trim().eq("READY"); an Err of the read and a line that fails
\* the test return from detector_thread before the cleanup, which drops the
\* receiver and what is queued in it and leaves the peer as it is
detector_thread_ready(ok, line) ==
    /\ worker_pc = "wait_ready"
    /\ IF ok
       THEN /\ ready_line' = line
            /\ IF Trim(line) = READY
               THEN /\ worker_pc' = "idle"
                    /\ UNCHANGED request_queue
               ELSE /\ worker_pc' = "bailed"
                    /\ request_queue' = <<>>
       ELSE /\ worker_pc' = "bailed"
            /\ request_queue' = <<>>
            /\ UNCHANGED ready_line
    /\ UNCHANGED <<main_pc, stage_vars>>
    /\ UNCHANGED <<loop_vars, env_vars, capture_vars, slot_vars, app_vars, last_result,
                   peer_in, peer_out, peer_alive, dropped, mode_vars, det_vars,
                   reader_vars, hist_loop, hist_bridge, hist_mode>>

\* variant of detector_thread_write: the next request is written without
\* waiting for the response to the previous one
detector_thread_write_pipelined(ok) ==
    /\ worker_pc \in {"idle", "read_line"}
    /\ request_queue # <<>>
    /\ Head(request_queue) # Shutdown
    /\ (ok => peer_alive)
    /\ IF ok
       THEN /\ peer_in' = Append(peer_in, Head(request_queue))
            /\ sent' = Append(sent, Head(request_queue))
            /\ request_queue' = Tail(request_queue)
            /\ worker_pc' = "read_line"
            /\ UNCHANGED <<peer_out, peer_alive>>
       ELSE /\ worker_pc' = "cleaned"
            /\ request_queue' = <<>>
            /\ peer_alive' = FALSE          \* child.kill(), child.wait()
            /\ peer_in' = <<>>
            /\ peer_out' = <<>>
            /\ UNCHANGED sent
    /\ UNCHANGED <<main_pc, stage_vars>>
    /\ UNCHANGED <<loop_vars, env_vars, capture_vars, slot_vars, app_vars, last_result,
                   ready_line, dropped, mode_vars, det_vars, reader_vars, hist_loop,
                   submitted, lines_read, hist_mode>>

\* for request in request_rx, Detect arm: length prefix, payload, flush; a
\* failed write (the only outcome once the peer has exited) breaks out of the
\* loop to the cleanup, which drops the receiver and kills the peer
detector_thread_write(ok) ==
    /\ worker_pc = "idle"
    /\ request_queue # <<>>
    /\ Head(request_queue) # Shutdown
    /\ (ok => peer_alive)
    /\ IF ok
       THEN /\ peer_in' = Append(peer_in, Head(request_queue))
            /\ sent' = Append(sent, Head(request_queue))
            /\ request_queue' = Tail(request_queue)
            /\ worker_pc' = "read_line"
            /\ UNCHANGED <<peer_out, peer_alive>>
       ELSE /\ worker_pc' = "cleaned"
            /\ request_queue' = <<>>
            /\ peer_alive' = FALSE          \* child.kill(), child.wait()
            /\ peer_in' = <<>>
            /\ peer_out' = <<>>
            /\ UNCHANGED sent
    /\ UNCHANGED <<main_pc, stage_vars>>
    /\ UNCHANGED <<loop_vars, env_vars, capture_vars, slot_vars, app_vars, last_result,
                   ready_line, dropped, mode_vars, det_vars, reader_vars, hist_loop,
                   submitted, lines_read, hist_mode>>

\* reader.read_line, serde_json::from_str and the store into last_result:
\* a line is parsed and stored; at end of stream read_line is Ok(0), the empty
\* line does not parse and the error result is stored; an Err breaks out of the
\* loop to the cleanup, which drops the receiver and kills the peer
detector_thread_read(r) ==
    /\ worker_pc = "read_line"
    /\ CASE r = "line" ->
              /\ peer_out # <<>>
              /\ lines_read' = Append(lines_read, Head(peer_out))
              /\ last_result' = ParseResponse(Head(peer_out))
              /\ peer_out' = Tail(peer_out)
              /\ worker_pc' = "idle"
              /\ UNCHANGED <<request_queue, peer_in, peer_alive>>
         [] r = "eof" ->
              /\ peer_out = <<>>
              /\ ~peer_alive
              /\ lines_read' = Append(lines_read, [req |-> 0, body |-> "eof"])
              /\ last_result' = ParseResponse([req |-> 0, body |-> "eof"])
              /\ worker_pc' = "idle"
              /\ UNCHANGED <<request_queue, peer_in, peer_out, peer_alive>>
         [] OTHER ->
              /\ worker_pc' = "cleaned"
              /\ request_queue' = <<>>
              /\ peer_alive' = FALSE          \* child.kill(), child.wait()
              /\ peer_in' = <<>>
              /\ peer_out' = <<>>
              /\ UNCHANGED <<lines_read, last_result>>
    /\ UNCHANGED <<main_pc, stage_vars>>
    /\ UNCHANGED <<loop_vars, env_vars, capture_vars, slot_vars, app_vars, ready_line,
                   dropped, mode_vars, det_vars, reader_vars, hist_loop, submitted,
                   sent, hist_mode>>

\* the co-process: one response line per request, in the order received
peer_respond(body) ==
    /\ peer_alive
    /\ peer_in # <<>>
    /\ peer_out' = Append(peer_out, [req |-> Head(peer_in), body |-> body])
    /\ peer_in' = Tail(peer_in)
    /\ UNCHANGED <<main_pc, stage_vars>>
    /\ UNCHANGED <<loop_vars, env_vars, capture_vars, slot_vars, app_vars,
                   request_queue, worker_pc, last_result, peer_alive, ready_line,
                   dropped, mode_vars, det_vars, reader_vars, hist_loop,
                   hist_bridge, hist_mode>>

\* the co-process exits after its READY line: what it has not answered stays
\* unanswered, what it has printed stays readable
peer_exit ==
    /\ peer_alive
    /\ worker_pc # "wait_ready"
    /\ peer_alive' = FALSE
    /\ peer_in' = <<>>
    /\ UNCHANGED <<main_pc, stage_vars>>
    /\ UNCHANGED <<loop_vars, env_vars, capture_vars, slot_vars, app_vars,
                   request_queue, worker_pc, last_result, peer_out, ready_line,
                   dropped, mode_vars, det_vars, reader_vars, hist_loop,
                   hist_bridge, hist_mode>>

\* Drop for YoloDetector: request_tx.send(DetectorRequest::Shutdown), ignored
\* when the receiver is gone. The detector lives in AppState, which goes when
\* main returns and the runtime has cancelled capture_loop at its await.
drop_detector ==
    /\ ~dropped
    /\ pc = "tick"
    /\ det_pc = "idle"
    /\ dropped' = TRUE
    /\ request_queue' = IF WorkerEnded THEN request_queue
                        ELSE Append(request_queue, Shutdown)
    /\ UNCHANGED <<main_pc, stage_vars>>
    /\ UNCHANGED <<loop_vars, env_vars, capture_vars, slot_vars, app_vars, worker_pc,
                   last_result, peer_in, peer_out, peer_alive, ready_line, mode_vars,
                   det_vars, reader_vars, hist_loop, hist_bridge, hist_mode>>

\* for request in request_rx, Shutdown arm: break, then the cleanup
\* child.kill(), child.wait()
detector_thread_shutdown ==
    /\ worker_pc = "idle"
    /\ request_queue # <<>>
    /\ Head(request_queue) = Shutdown
    /\ worker_pc' = "cleaned"
    /\ request_queue' = <<>>
    /\ peer_alive' = FALSE
    /\ peer_in' = <<>>
    /\ peer_out' = <<>>
    /\ UNCHANGED <<main_pc, stage_vars>>
    /\ UNCHANGED <<loop_vars, env_vars, capture_vars, slot_vars, app_vars, last_result,
                   ready_line, dropped, mode_vars, det_vars, reader_vars, hist_loop,
                   hist_bridge, hist_mode>>

detector_drop ==
    \/ drop_detector
    \/ detector_thread_shutdown

detector_thread ==
    \/ \E ok \in BOOLEAN : detector_thread_spawn(ok)
    \/ \E line \in first_lines : detector_thread_ready(TRUE, line)
    \/ detector_thread_ready(FALSE, Line_eof)
    \/ \E ok \in BOOLEAN : detector_thread_write(ok)
    \/ \E r \in ReadOutcomes : detector_thread_read(r)
    \/ \E body \in Bodies : peer_respond(body)
    \/ peer_exit

\* -------------------------------------------------------- set_mode_handler
ModeInFlight(h) == mode_pc[h] # "idle"

\* the match on the path segment; an unrecognised one returns the error JSON
set_mode_handler_match(h, path) ==
    /\ mode_pc[h] = "idle"
    /\ Serving
    /\ h <= mode_clients
    /\ \A o \in ModeHandlers : o < h => ModeInFlight(o)
    /\ IF ParseMode(path) = <<>>
       THEN /\ mode_resp' = Json(TRUE)
            /\ UNCHANGED <<mode_pc, mode_arg, hist_mode>>
       ELSE /\ mode_arg' = [mode_arg EXCEPT ![h] = ParseMode(path)[1]]
            /\ mode_pc' = [mode_pc EXCEPT ![h] = "set_mode"]
            /\ UNCHANGED mode_resp
            /\ settled' = <<>>
            /\ overlapped' = IF \E o \in ModeHandlers \ {h} : ModeInFlight(o)
                             THEN [o \in ModeHandlers |-> ModeInFlight(o) \/ o = h]
                             ELSE [overlapped EXCEPT ![h] = FALSE]
    /\ UNCHANGED <<main_pc, stage_vars>>
    /\ UNCHANGED <<loop_vars, env_vars, capture_vars, slot_vars, app_vars, bridge_vars,
                   det_vars, reader_vars, hist_loop, hist_bridge>>

\* variant of set_mode: the mode is written without taking the capture lock
set_mode_unlocked(h) ==
    /\ mode_pc[h] = "set_mode"
    /\ config_mode' = mode_arg[h]
    /\ mode_pc' = [mode_pc EXCEPT ![h] = "current_mode"]
    /\ UNCHANGED <<main_pc, stage_vars>>
    /\ UNCHANGED <<loop_vars, env_vars, capture_locked, bayer_tick, rgb_tick, gray_tick,
                   stage_mode, raw_data, slot_vars, app_vars, bridge_vars, mode_arg,
                   mode_resp, det_vars, reader_vars, hist_loop, hist_bridge,
                   hist_mode>>

\* variant of set_mode: the capture instance is not told about the mode
set_mode_skipped(h) ==
    /\ mode_pc[h] = "set_mode"
    /\ ~capture_locked
    /\ mode_pc' = [mode_pc EXCEPT ![h] = "current_mode"]
    /\ UNCHANGED <<main_pc, stage_vars>>
    /\ UNCHANGED <<loop_vars, env_vars, capture_vars, slot_vars, app_vars, bridge_vars,
                   mode_arg, mode_resp, det_vars, reader_vars, hist_loop,
                   hist_bridge, hist_mode>>

\* state.capture.write() and FrameCapture::set_mode
set_mode(h) ==
    /\ mode_pc[h] = "set_mode"
    /\ ~capture_locked
    /\ config_mode' = mode_arg[h]
    /\ mode_pc' = [mode_pc EXCEPT ![h] = "current_mode"]
    /\ UNCHANGED <<main_pc, stage_vars>>
    /\ UNCHANGED <<loop_vars, env_vars, capture_locked, bayer_tick, rgb_tick, gray_tick,
                   stage_mode, raw_data, slot_vars, app_vars, bridge_vars, mode_arg,
                   mode_resp, det_vars, reader_vars, hist_loop, hist_bridge,
                   hist_mode>>

\* *state.current_mode.write() = new_mode, and the success JSON
set_mode_handler_current_mode(h) ==
    /\ mode_pc[h] = "current_mode"
    /\ current_mode' = mode_arg[h]
    /\ mode_pc' = [mode_pc EXCEPT ![h] = "idle"]
    /\ mode_arg' = [mode_arg EXCEPT ![h] = "Grayscale"]
    /\ settled' = IF overlapped[h] THEN settled ELSE <<mode_arg[h]>>
    /\ overlapped' = [overlapped EXCEPT ![h] = FALSE]
    /\ mode_resp' = Json(FALSE)
    /\ UNCHANGED <<main_pc, stage_vars>>
    /\ UNCHANGED <<loop_vars, env_vars, capture_vars, slot_vars, detection_enabled,
                   last_detections, bridge_vars, det_vars, reader_vars, hist_loop,
                   hist_bridge>>

set_mode_handler ==
    \E h \in ModeHandlers :
        \/ \E path \in mode_paths : set_mode_handler_match(h, path)
        \/ set_mode(h)
        \/ set_mode_handler_current_mode(h)

\* --------------------------------------------------- set_detection_handler
\* the match on the path segment and the detector_available test:
\* state.detector holds the YoloDetector that YoloDetector::new returned
set_detection_handler_match(path) ==
    /\ det_pc = "idle"
    /\ Serving
    /\ IF path = "on" /\ ~detector_available
       THEN UNCHANGED det_vars          \* the error reply
       ELSE /\ det_arg' = (path = "on")
            /\ det_pc' = "detection_enabled"
    /\ UNCHANGED <<main_pc, stage_vars>>
    /\ UNCHANGED <<loop_vars, env_vars, capture_vars, slot_vars, app_vars, bridge_vars,
                   mode_vars, reader_vars, hist_loop, hist_bridge, hist_mode>>

\* *state.detection_enabled.write() = enable
set_detection_handler_write ==
    /\ det_pc = "detection_enabled"
    /\ detection_enabled' = det_arg
    /\ det_pc' = IF det_arg THEN "idle" ELSE "clear"
    /\ UNCHANGED <<main_pc, stage_vars>>
    /\ UNCHANGED <<loop_vars, env_vars, capture_vars, slot_vars, current_mode,
                   last_detections, bridge_vars, mode_vars, det_arg,
                   reader_vars, hist_loop, hist_bridge, hist_mode>>

\* if !enable: *state.last_detections.write() = DetectionResult::default()
set_detection_handler_clear ==
    /\ det_pc = "clear"
    /\ last_detections' = DetectionResult_default
    /\ det_pc' = "idle"
    /\ UNCHANGED <<main_pc, stage_vars>>
    /\ UNCHANGED <<loop_vars, env_vars, capture_vars, slot_vars, current_mode,
                   detection_enabled, bridge_vars, mode_vars, det_arg,
                   reader_vars, hist_loop, hist_bridge, hist_mode>>

set_detection_handler ==
    \/ \E path \in DetectPaths : set_detection_handler_match(path)
    \/ set_detection_handler_write
    \/ set_detection_handler_clear

\* ----------------------------------------------------------------- readers
\* GET /frame.jpg: 200 with a clone of the slot, 503 when it is None
frame_handler ==
    /\ Serving
    /\ ~slot_locked
    /\ frame_resp' = IF current_frame = <<>>
                     THEN [status |-> 503, body |-> <<>>]
                     ELSE [status |-> 200, body |-> current_frame]
    /\ UNCHANGED <<main_pc, stage_vars>>
    /\ UNCHANGED <<loop_vars, env_vars, capture_vars, slot_vars, app_vars, bridge_vars,
                   mode_vars, det_vars, stream_part, stream_emitted, status_pc,
                   status_count, status_resp, hist_loop, hist_bridge, hist_mode>>

\* GET /stream, one interval of the stream: the part carries a clone of the
\* slot (no payload while it is None)
mjpeg_stream_handler ==
    /\ Serving
    /\ ~slot_locked
    /\ stream_part' = current_frame
    /\ UNCHANGED <<main_pc, stage_vars>>
    /\ UNCHANGED <<loop_vars, env_vars, capture_vars, slot_vars, app_vars, bridge_vars,
                   mode_vars, det_vars, frame_resp, stream_emitted, status_pc,
                   status_count, status_resp, hist_loop, hist_bridge, hist_mode>>

\* the payloads of a client's parts with one more part: a part that repeats
\* the one before it is left out
Emit(parts, frame) ==
    IF parts # <<>> /\ parts[Len(parts)] = frame THEN parts ELSE Append(parts, frame)

\* variant of mjpeg_stream_part: the part carries any frame published so far
mjpeg_stream_part_any(c) ==
    /\ Serving
    /\ published # {}
    /\ \E frame \in published :
          stream_emitted' = [stream_emitted EXCEPT ![c] = Emit(@, frame)]
    /\ UNCHANGED <<main_pc, stage_vars>>
    /\ UNCHANGED <<loop_vars, env_vars, capture_vars, slot_vars, app_vars, bridge_vars,
                   mode_vars, det_vars, frame_resp, stream_part, status_pc,
                   status_count, status_resp, hist_loop, hist_bridge, hist_mode>>

\* GET /stream for client c, one interval of its stream: the part carries a
\* clone of the slot; while the slot is None the chunk is empty
mjpeg_stream_part(c) ==
    /\ Serving
    /\ ~slot_locked
    /\ stream_emitted' = IF current_frame = <<>> THEN stream_emitted
                         ELSE [stream_emitted EXCEPT ![c] = Emit(@, current_frame[1])]
    /\ UNCHANGED <<main_pc, stage_vars>>
    /\ UNCHANGED <<loop_vars, env_vars, capture_vars, slot_vars, app_vars, bridge_vars,
                   mode_vars, det_vars, frame_resp, stream_part, status_pc,
                   status_count, status_resp, hist_loop, hist_bridge, hist_mode>>

\* GET /status: let frame_count = *state.frame_count.read()
status_handler_frame_count ==
    /\ status_pc = "idle"
    /\ Serving
    /\ status_count' = frame_count
    /\ status_pc' = "has_frame"
    /\ UNCHANGED <<main_pc, stage_vars>>
    /\ UNCHANGED <<loop_vars, env_vars, capture_vars, slot_vars, app_vars, bridge_vars,
                   mode_vars, det_vars, frame_resp, stream_part, stream_emitted,
                   status_resp, hist_loop, hist_bridge, hist_mode>>

\* GET /status: let has_frame = state.current_frame.read().is_some(), and
\* the JSON reply
status_handler_has_frame ==
    /\ status_pc = "has_frame"
    /\ ~slot_locked
    /\ status_resp' = [frame_count |-> status_count, has_frame |-> current_frame # <<>>]
    /\ status_pc' = "idle"
    /\ UNCHANGED <<main_pc, stage_vars>>
    /\ UNCHANGED <<loop_vars, env_vars, capture_vars, slot_vars, app_vars, bridge_vars,
                   mode_vars, det_vars, frame_resp, stream_part, stream_emitted,
                   status_count, hist_loop, hist_bridge, hist_mode>>

status_handler ==
    \/ status_handler_frame_count
    \/ status_handler_has_frame

\* ------------------------------------------------------------------- specs
\* The whole service with one /mode client at a time and /frame.jpg readers.
Next ==
    \/ capture_loop
    \/ detector_thread
    \/ set_mode_handler
    \/ set_detection_handler
    \/ frame_handler

Spec == Init /\ [][Next]_vars

\* The same without readers.
NextCapture ==
    \/ capture_loop
    \/ detector_thread
    \/ set_mode_handler
    \/ set_detection_handler

SpecCapture == Init /\ [][NextCapture]_vars

\* Capture, detection and the bridge, observed by /status.
NextStatus ==
    \/ capture_loop
    \/ detector_thread
    \/ set_detection_handler
    \/ status_handler

SpecStatus == Init /\ [][NextStatus]_vars

\* Capture, detection and the bridge, observed by /frame.jpg and /stream.
NextReaders ==
    \/ capture_loop
    \/ detector_thread
    \/ set_detection_handler
    \/ frame_handler
    \/ mjpeg_stream_handler

SpecReaders == Init /\ [][NextReaders]_vars

\* Capture with detection never enabled and two concurrent /mode clients.
InitMode ==
    InitServing /\ tick_limit = MaxTicks /\ mode_clients = 2
    /\ first_lines = {Line_READY, Line_eof}
    /\ raw_files = {<<>>, <<STRIDE * HEIGHT>>}
    /\ mode_paths = {"grayscale", "color"}

NextMode ==
    \/ capture_loop_frame
    \/ set_mode_handler

SpecMode == InitMode /\ [][NextMode]_vars

\* Capture, detection and the bridge over enough ticks for several submits.
InitDet ==
    InitServing /\ tick_limit = MaxDetTicks /\ mode_clients = 1
    /\ first_lines = {Line_READY, Line_eof}
    /\ raw_files = {<<>>, <<STRIDE * HEIGHT>>}
    /\ mode_paths = {"grayscale", "color"}

NextDet ==
    \/ capture_loop
    \/ detector_thread
    \/ set_detection_handler

SpecDet == InitDet /\ [][NextDet]_vars

\* The bridge with every first line the peer may print.
InitReady ==
    InitServing /\ tick_limit = MaxTicks /\ mode_clients = 1
    /\ first_lines = FirstLines
    /\ raw_files = {<<>>, <<STRIDE * HEIGHT>>}
    /\ mode_paths = {"grayscale", "color"}

SpecReady == InitReady /\ [][NextDet]_vars

\* Capture, detection and the bridge until the detector is dropped, and the
\* worker after that.
NextDrop ==
    \/ capture_loop
    \/ detector_thread
    \/ set_detection_handler
    \/ detector_drop

SpecDrop == Init /\ [][NextDrop]_vars

\* Capture with every raw file v4l2-ctl may leave behind.
InitRaw ==
    InitServing /\ tick_limit = MaxTicks /\ mode_clients = 1
    /\ first_lines = {Line_READY, Line_eof}
    /\ raw_files = RawFiles
    /\ mode_paths = {"grayscale", "color"}

SpecRaw == InitRaw /\ [][NextMode]_vars

\* The start of main, then capture and /mode requests.
InitStartup ==
    InitCommon /\ main_pc = "setup_sensor" /\ stage_in = <<>> /\ stage_out = <<>>
    /\ tick_limit = MaxTicks /\ mode_clients = 1
    /\ first_lines = {Line_READY, Line_eof}
    /\ raw_files = {<<>>, <<STRIDE * HEIGHT>>}
    /\ mode_paths = {"grayscale", "color"}

NextStartup ==
    \/ \E link_run, link_success, gain_run, gain_success \in BOOLEAN :
            main_startup(link_run, link_success, gain_run, gain_success)
    \/ capture_loop_frame
    \/ set_mode_handler

SpecStartup == InitStartup /\ [][NextStartup]_vars

\* Capture and /mode requests with every path segment.
InitPaths ==
    InitServing /\ tick_limit = MaxTicks /\ mode_clients = 1
    /\ first_lines = {Line_READY, Line_eof}
    /\ raw_files = {<<>>, <<STRIDE * HEIGHT>>}
    /\ mode_paths = ModePaths

SpecPaths == InitPaths /\ [][NextMode]_vars

\* Capture, /mode requests and two /stream clients.
NextStream ==
    \/ capture_loop_frame
    \/ set_mode_handler
    \/ \E c \in StreamClients : mjpeg_stream_part(c)

SpecStream == Init /\ [][NextStream]_vars

\* unpack_bayer10 on a full raw frame, seen at one group of packed pixels.
InitUnpack ==
    /\ InitCommon /\ main_pc = "serving"
    /\ tick_limit = MaxTicks /\ mode_clients = 1
    /\ first_lines = {Line_READY, Line_eof}
    /\ raw_files = {<<>>, <<STRIDE * HEIGHT>>}
    /\ mode_paths = {"grayscale", "color"}
    /\ stage_in \in { [x |-> g[1], y |-> g[2], v |-> v, raw |-> Pack(v),
                        len |-> STRIDE * HEIGHT] : g \in Groups, v \in Pixels }
    /\ stage_out = <<>>

NextUnpack == unpack_bayer10

SpecUnpack == InitUnpack /\ [][NextUnpack]_vars

\* the program at rest, for a processing stage run on its own
InitStage ==
    /\ InitCommon /\ main_pc = "serving"
    /\ tick_limit = MaxTicks /\ mode_clients = 1
    /\ first_lines = {Line_READY, Line_eof}
    /\ raw_files = {<<>>, <<STRIDE * HEIGHT>>}
    /\ mode_paths = {"grayscale", "color"}
    /\ stage_out = <<>>

\* the raw buffers extract_grayscale is tried on at cell <<out_y, g>>: the two
\* bytes that are averaged, in a full frame, in a frame that ends just after the
\* second, just before it, and before the first
ExtractInputs ==
    UNION { LET idx0 == (c[1] * 2) * STRIDE + c[2] * 5 + 4
                idx1 == (c[1] * 2 + 1) * STRIDE + c[2] * 5 + 4
            IN  { [out_y |-> c[1], g |-> c[2], len |-> len,
                   raw |-> (idx0 :> b[1]) @@ (idx1 :> b[2])] :
                    len \in {STRIDE * HEIGHT, idx1 + 1, idx1, idx0}, b \in BytePairs }
          : c \in GrayCells }

InitExtract == InitStage /\ stage_in \in ExtractInputs

NextExtract == extract_grayscale

SpecExtract == InitExtract /\ [][NextExtract]_vars

\* the planes upscale_grayscale is tried on at one destination pixel: every
\* choice of levels for the source pixels it reads, and a constant to add
UpscaleInputs ==
    UNION { { [dst_x |-> d[1], dst_y |-> d[2], native |-> native, k |-> k] :
                native \in [SrcCells(d[1], d[2]) -> GrayLevels], k \in GrayShifts }
          : d \in DstPixels }

InitUpscale == InitStage /\ stage_in \in UpscaleInputs

NextUpscale == upscale_grayscale

SpecUpscale == InitUpscale /\ [][NextUpscale]_vars

\* the Bayer plane demosaic_bayer is tried on at pixel p: a sample at the
\* pixel, one value on the samples beside it, one on the samples diagonal to it
DemosaicInput(p, sample, beside, diagonal) ==
    [x |-> p[1], y |-> p[2],
     plane |-> [q \in BayerWindow(p[1], p[2]) |->
                  IF q = p THEN sample
                  ELSE IF q[1] = p[1] \/ q[2] = p[2] THEN beside
                  ELSE diagonal]]

\* any 10-bit sample among all-zero or all-one neighbours
InitDemosaic ==
    /\ InitStage
    /\ \E p \in BayerPixels, sample \in 0..1023, beside \in {0, 1023}, diagonal \in {0, 1023} :
          stage_in = DemosaicInput(p, sample, beside, diagonal)

NextDemosaic == demosaic_bayer

SpecDemosaic == InitDemosaic /\ [][NextDemosaic]_vars

\* Capture with /mode, /detect and /frame.jpg clients while the detector
\* worker has not been scheduled yet.
NextFrame ==
    \/ capture_loop
    \/ set_mode_handler
    \/ set_detection_handler
    \/ frame_handler

SpecFrame == Init /\ [][NextFrame]_vars

\* The capture loop with a /mode client and a /detect client under fair
\* scheduling: every task of the runtime that can take a step eventually takes
\* one (weak fairness on each task), and a task waiting for a lock that is
\* released again and again eventually gets it (strong fairness on the step
\* that waits for the capture guard: parking_lot hands a lock over to a waiter
\* that has waited long enough).
NextLive ==
    \/ capture_loop
    \/ set_mode_handler
    \/ set_detection_handler

FairLive ==
    /\ WF_vars(capture_loop)
    /\ \A h \in ModeHandlers :
          /\ SF_vars(set_mode(h))
          /\ WF_vars(set_mode_handler_current_mode(h))
    /\ WF_vars(set_detection_handler_write \/ set_detection_handler_clear)

SpecLive == Init /\ [][NextLive]_vars /\ FairLive

\* ================================================================== claims

\* C1: the frame counter never decreases and advances by exactly one per
\* successful tick: between ticks it equals the number of ticks whose
\* capture_jpeg_frame returned Ok (inside a tick it is at most one behind that
\* number), and successive /status reads return non-decreasing values that
\* never exceed the counter.
C1_FrameCountMonotonic ==
    /\ [](/\ (pc = "tick" => frame_count = ok_ticks)
          /\ frame_count \in {ok_ticks - 1, ok_ticks}
          /\ status_resp.frame_count <= status_count
          /\ status_count <= frame_count)
    /\ [][/\ frame_count' \in {frame_count, frame_count + 1}
          /\ (ok_ticks' # ok_ticks => ok_ticks' = ok_ticks + 1)]_vars

\* two /status reads returned different counts around a failed tick
C1_Witness ==
    /\ pc = "tick"
    /\ ticks = 3
    /\ ok_ticks = 2
    /\ frame_count = 2
    /\ status_pc = "has_frame"
    /\ status_resp.frame_count = 1
    /\ status_count = 2

\* C2: a tick whose raw acquisition or encode returns Err leaves the slot and
\* the counter as they were, releases the capture lock and puts the loop back
\* at the tick boundary.
C2_FailedTickNoPublish ==
    [][(pc \in {"raw", "encode"} /\ pc' = "tick")
         => /\ current_frame' = current_frame
            /\ frame_count' = frame_count
            /\ stores' = stores
            /\ ~capture_locked'
            /\ ok_ticks' = ok_ticks]_vars

\* tick 1 published, tick 2 failed, tick 3 published
C2_Witness ==
    /\ {p.tick : p \in published} = {1, 3}
    /\ frame_count = 2
    /\ current_frame # <<>>

\* C3: the slot is empty exactly while nothing has been stored, it never
\* becomes empty again, and a /frame.jpg response produced after the first
\* store is a 200 carrying a frame, one produced before it a 503.
C3_SlotNeverEmptiedAgain ==
    /\ [](/\ (stores > 0) = (current_frame # <<>>)
          /\ (frame_resp.status = 200 => frame_resp.body # <<>>))
    /\ [][/\ (current_frame # <<>> => current_frame' # <<>>)
          /\ (frame_resp' # frame_resp
                => frame_resp'.status = IF stores > 0 THEN 200 ELSE 503)]_vars

\* /frame.jpg answered 200 with the frame of an earlier tick after a later
\* tick failed, with the mode changed and detection switched on
C3_Witness ==
    /\ frame_resp.status = 200
    /\ frame_resp.body = current_frame
    /\ pc = "tick"
    /\ ok_ticks < ticks
    /\ current_frame[1].tick < ticks
    /\ config_mode = "Color"
    /\ detection_enabled

\* C4 as stated: the counter is never smaller than the number of stores into
\* the slot.
C4_CounterNotBehindSlot == frame_count >= stores

\* C4 amended: the counter is never ahead of the number of stores and at most
\* one behind it; it is behind only between the store of a frame and the
\* increment that follows it.
C4_CounterAtMostOneBehind ==
    /\ frame_count \in {stores - 1, stores}
    /\ (frame_count = stores - 1) = (pc = "count")

\* a /status request has read count 0 while the first frame is in the slot
C4_Witness ==
    /\ pc = "count"
    /\ current_frame # <<>>
    /\ frame_count = 0
    /\ status_pc = "has_frame"
    /\ status_count = 0

\* C5: what /frame.jpg and /stream hand out is a payload that
\* capture_loop stored after a successful encode; every stored payload is the
\* whole output of one successful tick (one store per such tick, encoded from
\* the plane that tick filled).
C5_ReadersSeeStoredFrames ==
    /\ (frame_resp.body # <<>> => frame_resp.body[1] \in published)
    /\ (stream_part # <<>> => stream_part[1] \in published)
    /\ (current_frame # <<>> => current_frame[1] \in published)
    /\ Cardinality({p.tick : p \in published}) = stores
    /\ stores <= ok_ticks
    /\ \A p \in published : p.tick \in 1..ticks /\ p.plane = p.tick

\* the two readers hold different stored frames while a later tick has failed
C5_Witness ==
    /\ frame_resp.body # <<>>
    /\ stream_part # <<>>
    /\ frame_resp.body[1].tick = 1
    /\ stream_part[1].tick = 2
    /\ ticks = 3
    /\ ok_ticks = 2
    /\ pc = "tick"

\* C6: a tick runs in one mode: while the tick is between its stages and its
\* encode the mode has not changed, and every encoded frame was encoded in the
\* mode whose stages ran in its tick, from the plane those stages filled in
\* that tick, with that mode's colour type.
C6_TickRunsInOneMode ==
    /\ (pc = "encode" => stage_mode = config_mode)
    /\ \A p \in published \cup {jpeg_data[i] : i \in DOMAIN jpeg_data} :
          /\ p.stage = p.mode
          /\ p.plane = p.tick
          /\ p.kind = (IF p.stage = "Color" THEN "Rgb8" ELSE "L8")

\* a /mode request for the other mode is waiting for the capture lock while
\* the tick is between its stages and its encode, after an earlier frame was
\* published in another mode than the one of this tick
C6_Witness ==
    /\ pc = "encode"
    /\ \E h \in ModeHandlers : mode_pc[h] = "set_mode" /\ mode_arg[h] # config_mode
    /\ \E p \in published : p.mode # config_mode

C9_QueueBounded == Len(request_queue) <= 1

\* C10: the worker writes a request only after it has read the response to
\* the previous one (writes and reads alternate), the requests are written in
\* the order they were submitted, and after each read last_result is what
\* the line just read decodes to.
C10_ResponsesPairedFifo ==
    /\ [](/\ Len(sent) - Len(lines_read) \in {0, 1}
          /\ (worker_pc = "read_line" => Len(sent) = Len(lines_read) + 1)
          /\ (worker_pc = "idle" => Len(sent) = Len(lines_read))
          /\ Len(sent) <= Len(submitted)
          /\ sent = SubSeq(submitted, 1, Len(sent))
          /\ (lines_read # <<>> =>
                last_result = ParseResponse(lines_read[Len(lines_read)])))
    /\ [][/\ (sent' # sent => Len(lines_read) = Len(sent))
          /\ (lines_read' # lines_read => Len(lines_read') = Len(sent))]_vars

\* two requests were answered, one with boxes and one with a line that does
\* not parse
C10_Witness ==
    /\ Len(lines_read) = 2
    /\ lines_read[1].body = "boxes"
    /\ lines_read[2].body = "garbage"
    /\ lines_read[2].req = sent[2]
    /\ last_result.error

\* C11 as stated: a request is written to the peer only after the worker has
\* read the peer's first line and that line is exactly READY (with or without
\* its line terminator); before that, and after any other first line, nothing
\* has been written.
C11_NoRequestBeforeExactReady ==
    /\ (worker_pc \in {"spawn", "wait_ready", "failed_spawn", "bailed"}
          => sent = <<>> /\ peer_in = <<>>)
    /\ (sent # <<>> => ready_line \in {READY, Line_READY})

\* C11 as the code has it: a request is written to the peer only after the
\* worker has read the peer's first line and that line, with leading and
\* trailing white space removed, is READY; before that, and after a first line
\* that fails the test or cannot be read, nothing has been written.
C11_NoRequestBeforeTrimmedReady ==
    /\ (worker_pc \in {"spawn", "wait_ready", "failed_spawn", "bailed"}
          => sent = <<>> /\ peer_in = <<>>)
    /\ (sent # <<>> => Trim(ready_line) = READY)
    /\ (ready_line # <<>> /\ Trim(ready_line) # READY => worker_pc = "bailed")

\* a request has been written after a first line with white space around READY
C11_Witness ==
    /\ sent # <<>>
    /\ ready_line = <<" ", "R", "E", "A", "D", "Y", "\n">>

\* C12: detection_enabled is true only while a working detector bridge
\* exists: never once the worker has returned because the co-process failed to
\* spawn, never signalled READY, or broke later (GET /detect/on is then
\* answered with an error and leaves detection_enabled false).
C12_EnabledOnlyWithWorkingBridge == detection_enabled => ~WorkerEnded

\* C13: a detector failure never fails a capture tick and degrades to no
\* overlays: between ticks every Ok tick has stored its frame and advanced the
\* counter, and a frame published after the worker has ended carries no
\* detection overlay.
C13_FailureDegradesToNoOverlays ==
    /\ [](pc = "tick" => frame_count = ok_ticks /\ stores = ok_ticks)
    /\ [][(WorkerEnded /\ pc = "store" /\ pc' = "count")
            => ~current_frame'[1].overlay]_vars

\* C14: after the bridge is dropped the peer is shut down in every execution
\* in which it was spawned. The worker alone holds the child process, so once
\* the bridge is dropped and the worker has returned, the worker has killed
\* the peer and waited for it.
C14_PeerShutDownAfterDrop ==
    (dropped /\ WorkerEnded /\ worker_pc # "failed_spawn") => worker_pc = "cleaned"

\* C15: capture_raw_frame returns a buffer of exactly stride x height bytes or
\* an error, so the raw frame the unpack or extract stage is given is never
\* shorter (or longer) than stride x height.
C15_StagesGetFullFrame ==
    pc = "stages" => raw_data = <<STRIDE * HEIGHT>>

\* C16: whatever way setting the link frequency or the analogue gain fails
\* (the command cannot be run, or exits with a nonzero status), setup_sensor
\* reports success and startup continues: main never returns from the setup.
C16_SetupSensorTolerant == main_pc # "returned"

\* C17: GET /mode/{x} with an x that is not a recognised mode is answered with
\* HTTP status 400: a /mode response with the error body has status 400.
C17_BadModeIs400 == mode_resp.error => mode_resp.status = 400

\* the parts of client c restricted to the frames client o emitted too
CommonParts(c, o) ==
    LET Shared(frame) == \E k \in DOMAIN stream_emitted[o] : stream_emitted[o][k] = frame
    IN  SelectSeq(stream_emitted[c], Shared)

\* C18: two concurrent /stream clients emit published frames in publish order
\* (never an older frame after a newer one), and restricted to the frames both
\* emitted, their sequences, consecutive repeats left out, are the same
\* payloads in the same order.
C18_StreamsAgree ==
    /\ \A c \in StreamClients :
          /\ \A k \in DOMAIN stream_emitted[c] : stream_emitted[c][k] \in published
          /\ \A j, k \in DOMAIN stream_emitted[c] :
                j < k => stream_emitted[c][j].tick < stream_emitted[c][k].tick
    /\ CommonParts(1, 2) = CommonParts(2, 1)

\* client 1 emitted three frames, client 2 missed the second of them
C18_Witness ==
    /\ Len(stream_emitted[1]) = 3
    /\ Len(stream_emitted[2]) = 2
    /\ CommonParts(1, 2) = stream_emitted[2]
    /\ stream_emitted[2][2] = stream_emitted[1][3]

\* C19: a tick that runs in Grayscale mode never touches the colour planes:
\* from the start of the tick to the return of capture_jpeg_frame no step
\* writes the 10-bit Bayer plane or the RGB8 plane, and the frame it encodes
\* is the L8 encoding of the gray plane written in that tick.
C19_GrayscaleLeavesColourPlanes ==
    /\ [][(capture_locked /\ config_mode = "Grayscale")
            => (bayer_tick' = bayer_tick /\ rgb_tick' = rgb_tick)]_vars
    /\ [](\A p \in published :
            p.mode = "Grayscale" => p.stage = "Grayscale" /\ p.plane = p.tick)

\* a Grayscale tick has run its stages after a Color tick filled the colour
\* planes
C19_Witness ==
    /\ pc = "encode"
    /\ config_mode = "Grayscale"
    /\ gray_tick = ticks
    /\ rgb_tick > 0
    /\ rgb_tick < ticks
    /\ bayer_tick = rgb_tick

\* C20: unpack round trip: for pixel values v0..v3 in 0..1023 packed as
\* b_k = v_k >> 2 and b4 holding the low 2 bits of v_k at bit 2k, unpack_bayer10
\* stores exactly v_k at index y * width + 4x + k, for k = 0..3, and nothing
\* else for that group.
C20_UnpackRoundTrip ==
    stage_out # <<>> =>
        stage_out[1] = { <<stage_in.y * WIDTH + 4 * stage_in.x + k, stage_in.v[k + 1]>> :
                           k \in 0..3 }

\* the last group of the frame has been unpacked, with a pixel whose low bits
\* are 01 between pixels of all ones and all zeros
C20_Witness ==
    /\ stage_out # <<>>
    /\ stage_in.x = 959
    /\ stage_in.y = 2159
    /\ stage_in.v = <<1023, 0, 341, 1023>>
    /\ <<2159 * 3840 + 4 * 959 + 2, 341>> \in stage_out[1]

\* C21: grayscale extraction with row averaging: native_gray[oy, g] is the
\* integer floor of (raw[2oy * stride + 5g + 4] + raw[(2oy+1) * stride + 5g + 4]) / 2,
\* where an index at or beyond len(raw) reads as zero; when both bytes are
\* present and equal c the result is c.
C21_ExtractAveragesRows ==
    stage_out # <<>> =>
        LET idx0 == 2 * stage_in.out_y * STRIDE + 5 * stage_in.g + 4
            idx1 == (2 * stage_in.out_y + 1) * STRIDE + 5 * stage_in.g + 4
            a == IF idx0 >= stage_in.len THEN 0 ELSE stage_in.raw[idx0]
            b == IF idx1 >= stage_in.len THEN 0 ELSE stage_in.raw[idx1]
        IN  /\ stage_out[1].index = stage_in.out_y * GROUPS_PER_ROW + stage_in.g
            /\ 2 * stage_out[1].value <= a + b
            /\ a + b < 2 * stage_out[1].value + 2
            /\ (idx1 < stage_in.len /\ a = b => stage_out[1].value = a)

\* the last cell of the plane was extracted from a frame that ends before the
\* second of its two bytes: 255 and nothing average to 127
C21_Witness ==
    /\ stage_out # <<>>
    /\ stage_in.out_y = 1079
    /\ stage_in.g = 959
    /\ stage_in.len = 2159 * 4864 + 959 * 5 + 4
    /\ stage_in.raw[2158 * 4864 + 959 * 5 + 4] = 255
    /\ stage_out[1].value = 127

\* C22: upscale endpoints: after upscale_grayscale the output pixel at (0, 0)
\* equals native_gray[0, 0] and the output pixel at (width-1, height-1) equals
\* native_gray[src_h-1, src_w-1], for every native-gray plane.
C22_UpscaleEndpoints ==
    stage_out # <<>> =>
        /\ (stage_in.dst_x = 0 /\ stage_in.dst_y = 0
              => stage_out[1].value = stage_in.native[<<0, 0>>])
        /\ (stage_in.dst_x = WIDTH - 1 /\ stage_in.dst_y = HEIGHT - 1
              => stage_out[1].value
                   = stage_in.native[<<HEIGHT \div 2 - 1, GROUPS_PER_ROW - 1>>])

\* C23: upscale is monotone in the source: when every source pixel plus k is
\* at most 255, upscaling the plane with k added to every source pixel yields
\* exactly the original destination value plus k.
C23_UpscaleShift ==
    stage_out # <<>> =>
        ((\A c \in DOMAIN stage_in.native : stage_in.native[c] + stage_in.k <= 255)
            => stage_out[1].shifted = stage_out[1].value + stage_in.k)

\* an interpolated pixel between four different source pixels, shifted by 55
C23_Witness ==
    /\ stage_out # <<>>
    /\ stage_in.dst_x = 1920
    /\ stage_in.dst_y = 1081
    /\ stage_in.k = 55
    /\ \A c \in DOMAIN stage_in.native : stage_in.native[c] <= 200
    /\ \A c, d \in DOMAIN stage_in.native : c # d => stage_in.native[c] # stage_in.native[d]
    /\ stage_out[1].shifted = stage_out[1].value + 55
    /\ \A c \in DOMAIN stage_in.native : stage_out[1].value # stage_in.native[c]

\* C24: demosaic identity at samples: at every pixel, border pixels included,
\* the RGB8 channel the GBRG CFA places there (G at parity (0,0) and (1,1), B at
\* (0,1), R at (1,0), parity = (y & 1, x & 1)) equals min(sample, 1023) >> 2.
C24_DemosaicKeepsSample ==
    stage_out # <<>> =>
        LET sample == stage_in.plane[<<stage_in.x, stage_in.y>>]
            kept == (IF sample > 1023 THEN 1023 ELSE sample) \div 4
            parity == <<stage_in.y % 2, stage_in.x % 2>>
        IN  /\ (parity \in {<<0, 0>>, <<1, 1>>} => stage_out[1].g = kept)
            /\ (parity = <<0, 1>> => stage_out[1].b = kept)
            /\ (parity = <<1, 0>> => stage_out[1].r = kept)

\* the blue site in the last column of the first row, a sample of 600 among
\* all-one neighbours
C24_Witness ==
    /\ stage_out # <<>>
    /\ stage_in.x = 3839
    /\ stage_in.y = 0
    /\ stage_in.plane[<<3839, 0>>] = 600
    /\ stage_in.plane[<<3838, 0>>] = 1023
    /\ stage_out[1].b = 150
    /\ stage_out[1].g = 202

\* C25: while detection is enabled the encoded frame is submitted exactly on
\* the capture ticks whose index is a multiple of 3, counting every tick of
\* the loop: a successful tick goes to detect() if and only if detection is
\* enabled and the tick index % 3 = 0.
C25_SubmitOnEveryThirdTick ==
    [][pc = "got_frame" /\ pc' # "got_frame" =>
          (pc' = "detect" <=> (detection_enabled /\ ticks % 3 = 0))]_vars

\* C25 as the loop does it: the index is detection_frame_counter, which counts
\* only the successful ticks that read detection_enabled as true; a successful
\* tick goes to detect() if and only if it reads detection as enabled and is
\* the 3rd, 6th, ... such tick, and the other ticks leave the counter alone.
C25_SubmitOnEveryThirdEnabledFrame ==
    /\ [][pc = "got_frame" /\ pc' # "got_frame" =>
            /\ detection_frame_counter' =
                   detection_frame_counter + (IF detection_enabled THEN 1 ELSE 0)
            /\ pc' = "detect" <=>
                   (detection_enabled /\ detection_frame_counter' % 3 = 0)]_vars
    /\ [][pc # "got_frame" \/ pc' = "got_frame" =>
            detection_frame_counter' = detection_frame_counter]_vars
    /\ [](detection_frame_counter <= ok_ticks /\ ok_ticks <= ticks)

\* a submit on tick 4: the third successful tick since detection was enabled
C25_Witness ==
    /\ pc = "detect"
    /\ ticks = 4
    /\ detection_frame_counter = 3
    /\ ok_ticks = 4

\* C26: the writer holds the current-frame slot's write lock only for the
\* single assignment that swaps in the new payload: no raw acquisition,
\* pipeline stage, JPEG encode, detector call or overlay re-encode runs while
\* the lock is held; the step taken under the lock is the assignment, which
\* releases it.
C26_SlotLockOnlyForAssignment ==
    /\ [](slot_locked => pc = "store" /\ ~capture_locked /\ jpeg_data # <<>>)
    /\ [][slot_locked /\ pc' # pc =>
            /\ ~slot_locked'
            /\ current_frame' = jpeg_data
            /\ UNCHANGED <<capture_vars, jpeg_data, detection_frame_counter,
                           last_detections, bridge_vars, hist_bridge>>]_vars

\* the write lock is held over a slot that already has a frame, the frame of
\* the second tick ready to be swapped in
C26_Witness ==
    /\ slot_locked
    /\ pc = "store"
    /\ current_frame # <<>>
    /\ jpeg_data # current_frame

\* C27: whenever no /mode request is in progress, the mode reported by
\* /status and the dashboard (AppState.current_mode) equals the mode the
\* capture instance uses for its next tick (FrameCapture config.mode), after
\* any interleaving of concurrent /mode requests.
C27_ReportedModeIsCaptureMode ==
    (\A h \in ModeHandlers : mode_pc[h] = "idle") => current_mode = config_mode

\* C28: whenever detection is disabled and no /detect request is in progress,
\* the shared last_detections list is empty, for every interleaving of a
\* /detect/off request with a capture tick that had already read
\* detection_enabled as true.
C28_DisabledMeansNoDetections ==
    (~detection_enabled /\ det_pc = "idle") => ~last_detections.detections

\* C29: every /status response is consistent in one direction: if it reports
\* frame_count > 0 then it reports has_frame = true, under any interleaving of
\* the handler's two reads with the loop's two writes.
C29_StatusCountImpliesFrame ==
    /\ status_resp.frame_count > 0 => status_resp.has_frame
    /\ status_pc = "has_frame" /\ status_count > 0 => current_frame # <<>>

\* a response assembled across a publish: the count read before the second
\* frame was counted, has_frame read after it
C29_Witness ==
    /\ status_pc = "idle"
    /\ status_resp.has_frame
    /\ status_resp.frame_count = 1
    /\ frame_count = 2

====
